---- MODULE Spec2Model ----
(***************************************************************************)
(* A model of the blocked Bloom filter of src/src/lib.rs.                  *)
(*                                                                         *)
(* Widths are scaled so that the arithmetic stays inside TLC's integers:   *)
(* a machine word (u64 in the source) has WordBits = 2^WordLog bits, and a *)
(* hash / usize value has HashBits = 2 * HalfBits bits (64 = 2 * 32 in the *)
(* source, 64-bit target).  Every shift, mask and wrap of the source is    *)
(* kept, expressed in these widths.                                        *)
(***************************************************************************)
EXTENDS Integers, Sequences, FiniteSets, TLC

\* ---------------------------------------------------------------- bounds
WordLog == 2
HalfBits == 4
MaxBlocks == 2
MaxRounds == 1
MaxInserts == 2
MaxItem == 3
MaxSeed == 1
LargeExtra == 2

\* ------------------------------------------------------ program constants
\* rotate_left(5) in next_hash
RotateBy == 5
\* low bits of the multiplier 0x517c_c1b7_2722_0a95 of get_orginal_hashes
FxMultiplier == 2709

WordBits == 2 ^ WordLog
HashBits == 2 * HalfBits
HashModulus == 2 ^ HashBits
WordsModulus == 2 ^ WordBits

\* the four block sizes the filter is instantiated with (64, 128, 256, 512)
BlockSizes == {WordBits, 2 * WordBits, 4 * WordBits, 8 * WordBits}

Items == 1..MaxItem
Seeds == 0..MaxSeed

\* ------------------------------------------------------------ bit helpers
RECURSIVE BitOr(_, _)
BitOr(a, b) ==
    IF a = 0 THEN b
    ELSE IF b = 0 THEN a
    ELSE (IF (a % 2 = 1) \/ (b % 2 = 1) THEN 1 ELSE 0) + 2 * BitOr(a \div 2, b \div 2)

RECURSIVE BitAnd(_, _)
BitAnd(a, b) ==
    IF a = 0 \/ b = 0 THEN 0
    ELSE (IF (a % 2 = 1) /\ (b % 2 = 1) THEN 1 ELSE 0) + 2 * BitAnd(a \div 2, b \div 2)

wrapping_add(a, b) == (a + b) % HashModulus

wrapping_mul(a, b) == (a * (b % HashModulus)) % HashModulus

rotate_left(x, r) ==
    LET k == r % HashBits
    IN  ((x * (2 ^ k)) % HashModulus) + (x \div (2 ^ (HashBits - k)))

\* ------------------------------------------------------- hash derivation
\* next_hash updates *h1 and returns the new *h1: one value models both.
next_hash(h1, h2) == rotate_left(wrapping_add(h1, h2), RotateBy)

\* A hasher is [seed, constant]; constant = TRUE is a hasher whose output
\* does not depend on the item.  build_hasher / hash / finish in one step.
finish(hasher, val) ==
    LET spread == IF hasher.constant THEN 0 ELSE (val - 1) * (HashModulus - (HashModulus \div 3 + 6))
    IN  (HashModulus - 1 + spread + hasher.seed * (HashModulus - 13)) % HashModulus

Hashers == [seed : Seeds, constant : {FALSE}] \cup [seed : {0}, constant : {TRUE}]

get_orginal_hashes(hasher, val) ==
    LET h1 == finish(hasher, val)
        h2 == wrapping_mul(h1 \div (2 ^ HalfBits), FxMultiplier)
    IN  <<h1, h2>>

\* (hash >> 32) as usize * num_blocks, before any wrap
block_index_product(num_blocks, hash) == (hash \div (2 ^ HalfBits)) * num_blocks

block_index_overflows(num_blocks, hash) ==
    block_index_product(num_blocks, hash) >= HashModulus

block_index(num_blocks, hash) ==
    (block_index_product(num_blocks, hash) % HashModulus) \div (2 ^ HalfBits)


\* ------------------------------------------------------ blocked bit vector
words_per_block(B) == B \div WordBits

Zeros(n) == [i \in 1..n |-> 0]

\* BlockedBitVec::new: None when num_blocks = 0
BlockedBitVec_new(B, n) ==
    [some |-> n > 0, words |-> Zeros(n * words_per_block(B))]

\* From<Vec<u64>>: the vector padded with zero words to whole blocks
BlockedBitVec_from(B, vec) ==
    LET wpb == words_per_block(B)
        r == Len(vec) % wpb
    IN  IF r = 0 THEN vec ELSE vec \o Zeros(wpb - r)

bits_num_blocks(B, words) == Len(words) \div words_per_block(B)

get_block(B, words, index) ==
    SubSeq(words, index * words_per_block(B) + 1, (index + 1) * words_per_block(B))

put_block(B, words, index, block) ==
    [i \in 1..Len(words) |->
        IF (i - 1) \div words_per_block(B) = index
        THEN block[i - index * words_per_block(B)]
        ELSE words[i]]

set_for_block(block, offset) ==
    [block EXCEPT ![offset \div WordBits + 1] = BitOr(@, 2 ^ (offset % WordBits))]

check_for_block(block, offset) ==
    BitAnd(block[offset \div WordBits + 1], 2 ^ (offset % WordBits)) # 0

\* signature::signature: the OR of num_rounds one-bit masks, each from a
\* fresh derived hash; returns the mask and the advanced h1.
RECURSIVE signature(_, _, _)
signature(h1, h2, num_rounds) ==
    IF num_rounds = 0 THEN [data |-> 0, h1 |-> h1]
    ELSE LET h == next_hash(h1, h2)
             rest == signature(h, h2, num_rounds - 1)
         IN  [data |-> BitOr(2 ^ (h % WordBits), rest.data), h1 |-> rest.h1]

\* ----------------------------------------------------------------- filter
\* Option<u64>
None == [some |-> FALSE, val |-> 0]
Some(v) == [some |-> TRUE, val |-> v]

\* Builder::hashes: the target split into whole rounds per word and
\* leftover sparse hashes; no rounds is stored as None.
optimize_hashing(B, total) ==
    LET rounds == total \div words_per_block(B)
    IN  [num_rounds |-> IF rounds = 0 THEN None ELSE Some(rounds),
         num_hashes |-> total - rounds * words_per_block(B)]

Builder_hashes(B, builder, total) ==
    [BLOCK_SIZE_BITS |-> B,
     bits |-> builder.data,
     target_hashes |-> total,
     num_rounds |-> optimize_hashing(B, total).num_rounds,
     num_hashes |-> optimize_hashing(B, total).num_hashes,
     hasher |-> builder.hasher]

\* Builder::hasher / Builder::seed replace the builder's hasher
Builder_hasher(builder, hasher) == [builder EXCEPT !.hasher = hasher]

DefaultHasher == [seed |-> 0, constant |-> FALSE]

\* new_builder with num_bits / B + 1 blocks in place of div_ceil
new_builder_one_more(B, num_bits) ==
    LET n == num_bits \div B + 1
        data == BlockedBitVec_new(B, n)
    IN  IF num_bits > 0 /\ data.some
        THEN [ok |-> TRUE, data |-> data.words, hasher |-> DefaultHasher]
        ELSE [ok |-> FALSE, data |-> <<>>, hasher |-> DefaultHasher]

\* BloomFilter::new_builder: the assert and the unwrap are the two ways
\* out without a builder.
new_builder(B, num_bits) ==
    LET n == (num_bits + B - 1) \div B
        data == BlockedBitVec_new(B, n)
    IN  IF num_bits > 0 /\ data.some
        THEN [ok |-> TRUE, data |-> data.words, hasher |-> DefaultHasher]
        ELSE [ok |-> FALSE, data |-> <<>>, hasher |-> DefaultHasher]

\* BloomFilter::new_builder_from_vec
new_builder_from_vec(B, vec) ==
    IF Len(vec) # 0
    THEN [ok |-> TRUE, data |-> BlockedBitVec_from(B, vec), hasher |-> DefaultHasher]
    ELSE [ok |-> FALSE, data |-> <<>>, hasher |-> DefaultHasher]

num_blocks(F) == bits_num_blocks(F.BLOCK_SIZE_BITS, F.bits)

num_bits(F) == num_blocks(F) * F.BLOCK_SIZE_BITS

\* as_slice that leaves out the last word
as_slice_short(F) == SubSeq(F.bits, 1, Len(F.bits) - 1)

as_slice(F) == F.bits

BIT_INDEX_MASK(B) == B - 1

\* bit_index: the next derived hash masked to an offset of the block
bit_index(B, h) == BitAnd(h, BIT_INDEX_MASK(B))

\* insert_sparse that stores the one-bit mask into the word in place of
\* ORing it in
RECURSIVE insert_sparse_store(_, _, _, _, _)
insert_sparse_store(B, block, h1, h2, count) ==
    IF count = 0 THEN [block |-> block, h1 |-> h1]
    ELSE LET h == next_hash(h1, h2)
             offset == bit_index(B, h)
         IN  insert_sparse_store(
                 B, [block EXCEPT ![offset \div WordBits + 1] = 2 ^ (offset % WordBits)],
                 h, h2, count - 1)

\* insert_sparse that flips the bit at the offset in place of setting it
RECURSIVE insert_sparse_toggle(_, _, _, _, _)
insert_sparse_toggle(B, block, h1, h2, count) ==
    IF count = 0 THEN [block |-> block, h1 |-> h1]
    ELSE LET h == next_hash(h1, h2)
             offset == bit_index(B, h)
             bit == 2 ^ (offset % WordBits)
         IN  insert_sparse_toggle(
                 B, [block EXCEPT ![offset \div WordBits + 1] =
                                     IF BitAnd(@, bit) # 0 THEN @ - bit ELSE @ + bit],
                 h, h2, count - 1)

\* the sparse loop of insert: num_hashes times, advance h1 and set a bit
RECURSIVE insert_sparse(_, _, _, _, _)
insert_sparse(B, block, h1, h2, count) ==
    IF count = 0 THEN [block |-> block, h1 |-> h1]
    ELSE LET h == next_hash(h1, h2)
         IN  insert_sparse(B, set_for_block(block, bit_index(B, h)), h, h2, count - 1)

\* insert_signature with block[i] = data in place of block[i] |= data
RECURSIVE insert_signature_assign(_, _, _, _, _)
insert_signature_assign(block, h1, h2, num_rounds, i) ==
    IF i > Len(block) THEN [block |-> block, h1 |-> h1]
    ELSE LET sig == signature(h1, h2, num_rounds)
         IN  insert_signature_assign([block EXCEPT ![i] = sig.data],
                                     sig.h1, h2, num_rounds, i + 1)

\* the signature loop of insert: for the words i..len of the block in
\* ascending order, OR a signature into word i
RECURSIVE insert_signature(_, _, _, _, _)
insert_signature(block, h1, h2, num_rounds, i) ==
    IF i > Len(block) THEN [block |-> block, h1 |-> h1]
    ELSE LET sig == signature(h1, h2, num_rounds)
         IN  insert_signature([block EXCEPT ![i] = BitOr(@, sig.data)],
                              sig.h1, h2, num_rounds, i + 1)

\* the block of F that val selects
item_block(F, val) == block_index(num_blocks(F), get_orginal_hashes(F.hasher, val)[1])

\* whether the multiplication of block_index overflows usize for val
item_overflows(F, val) ==
    block_index_overflows(num_blocks(F), get_orginal_hashes(F.hasher, val)[1])

\* the block val selects after the sparse pass of insert
after_sparse(F, val) ==
    LET hs == get_orginal_hashes(F.hasher, val)
        block == get_block(F.BLOCK_SIZE_BITS, F.bits, item_block(F, val))
    IN  insert_sparse(F.BLOCK_SIZE_BITS, block, hs[1], hs[2], F.num_hashes)

\* after_signature with the signature pass restarted from the item's
\* first h1 instead of the h1 the sparse pass left
after_signature_restart(F, val) ==
    LET hs == get_orginal_hashes(F.hasher, val)
        sparse == after_sparse(F, val)
    IN  IF F.num_rounds.some
        THEN insert_signature(sparse.block, hs[1], hs[2], F.num_rounds.val, 1)
        ELSE sparse

\* the block val selects after both passes of insert
after_signature(F, val) ==
    LET hs == get_orginal_hashes(F.hasher, val)
        sparse == after_sparse(F, val)
    IN  IF F.num_rounds.some
        THEN insert_signature(sparse.block, sparse.h1, hs[2], F.num_rounds.val, 1)
        ELSE sparse

\* insert with both passes run on a zeroed block that then replaces the
\* block of the filter
insert_fresh_block(F, val) ==
    LET hs == get_orginal_hashes(F.hasher, val)
        zero == Zeros(words_per_block(F.BLOCK_SIZE_BITS))
        sparse == insert_sparse(F.BLOCK_SIZE_BITS, zero, hs[1], hs[2], F.num_hashes)
        done == IF F.num_rounds.some
                THEN insert_signature(sparse.block, sparse.h1, hs[2], F.num_rounds.val, 1)
                ELSE sparse
    IN  [F EXCEPT !.bits = put_block(F.BLOCK_SIZE_BITS, F.bits, item_block(F, val), done.block)]

\* insert with the block it computed ORed into every block of the vector
insert_every_block(F, val) ==
    LET new == after_signature(F, val).block
        wpb == words_per_block(F.BLOCK_SIZE_BITS)
    IN  [F EXCEPT !.bits = [i \in 1..Len(F.bits) |->
                               BitOr(F.bits[i], new[((i - 1) % wpb) + 1])]]

\* insert that leaves the filter alone when the selected block already has
\* a bit set
insert_unless_touched(F, val) ==
    IF \E i \in 1..words_per_block(F.BLOCK_SIZE_BITS) :
           get_block(F.BLOCK_SIZE_BITS, F.bits, item_block(F, val))[i] # 0
    THEN F
    ELSE [F EXCEPT !.bits = put_block(F.BLOCK_SIZE_BITS, F.bits, item_block(F, val),
                                      after_signature(F, val).block)]

insert(F, val) ==
    [F EXCEPT !.bits = put_block(F.BLOCK_SIZE_BITS, F.bits, item_block(F, val),
                                 after_signature(F, val).block)]

\* contains_sparse with any(..) in place of all(..): stops at the first bit
\* that is set
RECURSIVE contains_sparse_any(_, _, _, _, _)
contains_sparse_any(B, block, h1, h2, count) ==
    IF count = 0 THEN [ok |-> FALSE, h1 |-> h1]
    ELSE LET h == next_hash(h1, h2)
         IN  IF check_for_block(block, bit_index(B, h))
             THEN [ok |-> TRUE, h1 |-> h]
             ELSE contains_sparse_any(B, block, h, h2, count - 1)

\* the sparse half of contains: all(..) stops at the first bit not set
RECURSIVE contains_sparse(_, _, _, _, _)
contains_sparse(B, block, h1, h2, count) ==
    IF count = 0 THEN [ok |-> TRUE, h1 |-> h1]
    ELSE LET h == next_hash(h1, h2)
         IN  IF check_for_block(block, bit_index(B, h))
             THEN contains_sparse(B, block, h, h2, count - 1)
             ELSE [ok |-> FALSE, h1 |-> h]

\* the signature half of contains: all(..) over the words in ascending order
RECURSIVE contains_signature(_, _, _, _, _)
contains_signature(block, h1, h2, num_rounds, i) ==
    IF i > Len(block) THEN TRUE
    ELSE LET sig == signature(h1, h2, num_rounds)
         IN  IF BitAnd(block[i], sig.data) = sig.data
             THEN contains_signature(block, sig.h1, h2, num_rounds, i + 1)
             ELSE FALSE

\* contains with the signature pass run first, from the item's first h1,
\* and the sparse pass after it
contains_signature_first(F, val) ==
    LET hs == get_orginal_hashes(F.hasher, val)
        block == get_block(F.BLOCK_SIZE_BITS, F.bits, item_block(F, val))
        drawn == IF F.num_rounds.some
                 THEN insert_signature(Zeros(Len(block)), hs[1], hs[2], F.num_rounds.val, 1).h1
                 ELSE hs[1]
    IN  /\ (IF F.num_rounds.some
            THEN contains_signature(block, hs[1], hs[2], F.num_rounds.val, 1)
            ELSE TRUE)
        /\ contains_sparse(F.BLOCK_SIZE_BITS, block, drawn, hs[2], F.num_hashes).ok

\* contains that answers from the sparse pass alone
contains_sparse_only(F, val) ==
    LET hs == get_orginal_hashes(F.hasher, val)
        block == get_block(F.BLOCK_SIZE_BITS, F.bits, item_block(F, val))
    IN  contains_sparse(F.BLOCK_SIZE_BITS, block, hs[1], hs[2], F.num_hashes).ok

contains(F, val) ==
    LET hs == get_orginal_hashes(F.hasher, val)
        block == get_block(F.BLOCK_SIZE_BITS, F.bits, item_block(F, val))
        sparse == contains_sparse(F.BLOCK_SIZE_BITS, block, hs[1], hs[2], F.num_hashes)
    IN  sparse.ok /\ (IF F.num_rounds.some
                      THEN contains_signature(block, sparse.h1, hs[2], F.num_rounds.val, 1)
                      ELSE TRUE)

\* A position is what one draw of a pass sets or tests: the word of the
\* block (from 1), the bits of that word, and h1 as the draw left it.
\* The positions of count sparse draws: bit_index, then the word and bit
\* that set_for_block / check_for_block address
RECURSIVE sparse_positions(_, _, _, _)
sparse_positions(B, h1, h2, count) ==
    IF count = 0 THEN <<>>
    ELSE LET h == next_hash(h1, h2)
             offset == bit_index(B, h)
         IN  <<[pass |-> "sparse", word |-> offset \div WordBits + 1,
                data |-> 2 ^ (offset % WordBits), h1 |-> h]>>
             \o sparse_positions(B, h, h2, count - 1)

\* The positions of the signature draws for the words i..len of a block
RECURSIVE signature_positions(_, _, _, _, _)
signature_positions(len, h1, h2, num_rounds, i) ==
    IF i > len THEN <<>>
    ELSE LET sig == signature(h1, h2, num_rounds)
         IN  <<[pass |-> "signature", word |-> i, data |-> sig.data, h1 |-> sig.h1]>>
             \o signature_positions(len, sig.h1, h2, num_rounds, i + 1)

\* h1 after a sequence of draws that started from h1
DrawnTo(h1, positions) ==
    IF positions = <<>> THEN h1 ELSE positions[Len(positions)].h1

\* the positions insert sets for val, in the order it draws them
insert_positions(F, val) ==
    LET hs == get_orginal_hashes(F.hasher, val)
        sparse == sparse_positions(F.BLOCK_SIZE_BITS, hs[1], hs[2], F.num_hashes)
    IN  IF F.num_rounds.some
        THEN sparse \o signature_positions(
                 Len(get_block(F.BLOCK_SIZE_BITS, F.bits, item_block(F, val))),
                 DrawnTo(hs[1], sparse), hs[2], F.num_rounds.val, 1)
        ELSE sparse

\* the positions contains tests for val when no test stops it early, in the
\* order it draws them
contains_positions(F, val) ==
    LET hs == get_orginal_hashes(F.hasher, val)
        block == get_block(F.BLOCK_SIZE_BITS, F.bits, item_block(F, val))
        sparse == sparse_positions(F.BLOCK_SIZE_BITS, hs[1], hs[2], F.num_hashes)
    IN  IF F.num_rounds.some
        THEN sparse \o signature_positions(Len(block), DrawnTo(hs[1], sparse), hs[2],
                                           F.num_rounds.val, 1)
        ELSE sparse

\* impl PartialEq: the bit vectors and num_hashes are compared, nothing else
eq(F, G) == F.bits = G.bits /\ F.num_hashes = G.num_hashes

\* extend that leaves out the last item of the iterator
RECURSIVE extend_but_last(_, _)
extend_but_last(F, iter) ==
    IF Len(iter) <= 1 THEN F
    ELSE extend_but_last(insert(F, Head(iter)), Tail(iter))

\* impl Extend: for val in iter { self.insert(&val) }
RECURSIVE extend(_, _)
extend(F, iter) ==
    IF iter = <<>> THEN F
    ELSE extend(insert(F, Head(iter)), Tail(iter))

\* ------------------------------------------------------------------ state
VARIABLES
    overflow_checks,  \* does the build panic on integer overflow: "on", "off",
                      \* or "open" while no operation of the run has overflowed
    panicked,         \* an operation of the run has panicked
    fstate,           \* "unbuilt", "built", or "failed" (construction panicked)
    f,                \* the filter
    requested,        \* what the filter was constructed from
    inserted,         \* the items inserted into f so far
    result,           \* the last answer of contains on f
    gkind,            \* "none", or how the second filter g was made
    g,                \* a second filter
    gbase,            \* the items f held when g was made from f's words
    ginserted,        \* the items inserted into g so far
    extended,         \* the items handed to f.extend since g was made, in order
    replayed          \* how many items of extended went into g, one insert each

vars == <<overflow_checks, panicked, fstate, f, requested, inserted, result,
          gkind, g, gbase, ginserted, extended, replayed>>

gvars == <<gkind, g, gbase, ginserted>>

evars == <<extended, replayed>>

NoFilter ==
    [BLOCK_SIZE_BITS |-> WordBits, bits |-> <<>>, target_hashes |-> 0,
     num_rounds |-> None, num_hashes |-> 0, hasher |-> DefaultHasher]

NoRequest == [kind |-> "none", size |-> 0]
NoResult == [item |-> 0, answer |-> "none"]

Init ==
    /\ overflow_checks = "open"
    /\ panicked = FALSE
    /\ fstate = "unbuilt"
    /\ f = NoFilter
    /\ requested = NoRequest
    /\ inserted = {}
    /\ result = NoResult
    /\ gkind = "none"
    /\ g = NoFilter
    /\ gbase = {}
    /\ ginserted = {}
    /\ extended = <<>>
    /\ replayed = 0

\* ------------------------------------------------------------------ inputs
\* requested sizes: 0, and around each block boundary up to MaxBlocks blocks
RequestSizes(B) ==
    {0} \cup {(k - 1) * B + 1 : k \in 1..MaxBlocks} \cup {k * B : k \in 1..MaxBlocks}

\* requested sizes whose block count reaches 2^HalfBits and beyond
LargeSizes == {WordBits * (2 ^ HalfBits + k) : k \in 0..LargeExtra}

\* hash counts handed to Builder::hashes: whole rounds plus 0, 1 or
\* words_per_block - 1 more
Targets(B) ==
    {r * words_per_block(B) + h : r \in 0..MaxRounds, h \in {0, 1, words_per_block(B) - 1}}

\* backing vectors handed to new_builder_from_vec: of 0..MaxBlocks words,
\* all zero or all ones
Vectors ==
    {[i \in 1..n |-> w] : n \in 0..MaxBlocks, w \in {0, WordsModulus - 1}}

\* ----------------------------------------------------------------- actions
\* BloomFilter::new_builder::<B>(num_bits).hasher(hasher).hashes(total)
NewBuilder(B, n, hasher, total) ==
    /\ fstate = "unbuilt"
    /\ LET builder == new_builder(B, n)
       IN  IF builder.ok
           THEN /\ f' = Builder_hashes(B, Builder_hasher(builder, hasher), total)
                /\ fstate' = "built"
           ELSE /\ f' = f
                /\ fstate' = "failed"
    /\ requested' = [kind |-> "bits", size |-> n]
    /\ UNCHANGED <<overflow_checks, panicked, inserted, result, gvars, evars>>

\* BloomFilter::new_builder_from_vec::<B>(vec).hasher(hasher).hashes(total)
NewBuilderFromVec(B, vec, hasher, total) ==
    /\ fstate = "unbuilt"
    /\ LET builder == new_builder_from_vec(B, vec)
       IN  IF builder.ok
           THEN /\ f' = Builder_hashes(B, Builder_hasher(builder, hasher), total)
                /\ fstate' = "built"
           ELSE /\ f' = f
                /\ fstate' = "failed"
    /\ requested' = [kind |-> "vec", size |-> Len(vec)]
    /\ UNCHANGED <<overflow_checks, panicked, inserted, result, gvars, evars>>

\* The multiplication of block_index for item x of filter F: without
\* overflow the call goes on; with overflow a build with overflow checks
\* panics and a build without them wraps, and the run is of one build.
Multiplies(F, x, checked) ==
    IF item_overflows(F, x)
    THEN /\ overflow_checks \in {"open", IF checked THEN "on" ELSE "off"}
         /\ overflow_checks' = IF checked THEN "on" ELSE "off"
         /\ panicked' = checked
    ELSE /\ ~checked
         /\ UNCHANGED <<overflow_checks, panicked>>

\* f.insert(&x); f is filled before a second filter is made
Insert(x) ==
    /\ fstate = "built"
    /\ ~panicked
    /\ gkind = "none"
    /\ Cardinality(inserted \cup {x}) <= MaxInserts
    /\ \E checked \in BOOLEAN :
          /\ Multiplies(f, x, checked)
          /\ IF checked
             THEN UNCHANGED <<f, inserted>>
             ELSE /\ f' = insert(f, x)
                  /\ inserted' = inserted \cup {x}
    /\ result' = NoResult
    /\ UNCHANGED <<fstate, requested, gvars, evars>>

\* f.contains(&x)
Contains(x) ==
    /\ fstate = "built"
    /\ ~panicked
    /\ \E checked \in BOOLEAN :
          /\ Multiplies(f, x, checked)
          /\ result' = [item |-> x,
                        answer |-> IF checked THEN "panic"
                                   ELSE IF contains(f, x) THEN "true" ELSE "false"]
    /\ UNCHANGED <<fstate, f, requested, inserted, gvars, evars>>

\* a second filter built like f, with a hasher of its own
Twin(hasher) ==
    /\ fstate = "built"
    /\ ~panicked
    /\ requested.kind = "bits"
    /\ gkind = "none"
    /\ g' = Builder_hashes(f.BLOCK_SIZE_BITS,
                           Builder_hasher(new_builder(f.BLOCK_SIZE_BITS, requested.size), hasher),
                           f.target_hashes)
    /\ gkind' = "twin"
    /\ gbase' = {}
    /\ UNCHANGED <<overflow_checks, panicked, fstate, f, requested, inserted, result, ginserted,
                   evars>>

\* a second filter rebuilt from the exported words of f
Rebuild(hasher) ==
    /\ fstate = "built"
    /\ ~panicked
    /\ gkind = "none"
    /\ g' = Builder_hashes(f.BLOCK_SIZE_BITS,
                           Builder_hasher(new_builder_from_vec(f.BLOCK_SIZE_BITS, as_slice(f)), hasher),
                           f.target_hashes)
    /\ gkind' = "from_vec"
    /\ gbase' = inserted
    /\ UNCHANGED <<overflow_checks, panicked, fstate, f, requested, inserted, result, ginserted,
                   evars>>

\* g.insert(&x); g is given items that f was given
InsertSecond(x) ==
    /\ gkind # "none"
    /\ ~panicked
    /\ x \in inserted
    /\ Cardinality(ginserted \cup {x}) <= MaxInserts
    /\ \E checked \in BOOLEAN :
          /\ Multiplies(g, x, checked)
          /\ IF checked
             THEN UNCHANGED <<g, ginserted>>
             ELSE /\ g' = insert(g, x)
                  /\ ginserted' = ginserted \cup {x}
    /\ UNCHANGED <<fstate, f, requested, inserted, result, gkind, gbase, evars>>

\* g = f.clone()
Clone ==
    /\ fstate = "built"
    /\ ~panicked
    /\ gkind = "none"
    /\ g' = f
    /\ gkind' = "clone"
    /\ gbase' = inserted
    /\ UNCHANGED <<overflow_checks, panicked, fstate, f, requested, inserted, result, ginserted,
                   evars>>

\* the first item of iter whose block_index multiplication overflows on F,
\* or Len(iter) + 1 when there is none
FirstOverflow(F, iter) ==
    LET bad == {i \in 1..Len(iter) : item_overflows(F, iter[i])}
    IN  IF bad = {} THEN Len(iter) + 1
        ELSE CHOOSE i \in bad : \A j \in bad : i <= j

Range(iter) == {iter[i] : i \in 1..Len(iter)}

\* f.extend(iter), once a clone of f has been kept: the whole loop is one
\* step; a panic of an insert ends it with the earlier items inserted.
\* MaxInserts bounds the items f held at the clone plus those it is
\* extended by.
Extend(iter) ==
    /\ fstate = "built"
    /\ ~panicked
    /\ gkind = "clone"
    /\ Cardinality(gbase) + Len(extended) + Len(iter) <= MaxInserts
    /\ LET k == FirstOverflow(f, iter)
       IN  \E checked \in BOOLEAN :
              /\ IF k <= Len(iter)
                 THEN Multiplies(f, iter[k], checked)
                 ELSE /\ ~checked
                      /\ UNCHANGED <<overflow_checks, panicked>>
              /\ LET done == IF checked THEN SubSeq(iter, 1, k - 1) ELSE iter
                 IN  /\ f' = extend(f, done)
                     /\ inserted' = inserted \cup Range(done)
                     /\ extended' = extended \o done
    /\ result' = NoResult
    /\ UNCHANGED <<fstate, requested, gvars, replayed>>

\* g.insert(&x) for the next item x that f.extend was given
Replay ==
    /\ gkind = "clone"
    /\ ~panicked
    /\ replayed < Len(extended)
    /\ LET x == extended[replayed + 1]
       IN  \E checked \in BOOLEAN :
              /\ Multiplies(g, x, checked)
              /\ IF checked
                 THEN UNCHANGED <<g, ginserted, replayed>>
                 ELSE /\ g' = insert(g, x)
                      /\ ginserted' = ginserted \cup {x}
                      /\ replayed' = replayed + 1
    /\ UNCHANGED <<fstate, f, requested, inserted, result, gkind, gbase, extended>>

\* ---------------------------------------------------------- specifications
\* one filter: construction, inserts and queries
Next ==
    \/ \E B \in BlockSizes, hasher \in Hashers :
          \E n \in RequestSizes(B), total \in Targets(B) : NewBuilder(B, n, hasher, total)
    \/ \E B \in BlockSizes, hasher \in Hashers, vec \in Vectors :
          \E total \in Targets(B) : NewBuilderFromVec(B, vec, hasher, total)
    \/ \E x \in Items : Insert(x)
    \/ \E x \in Items : Contains(x)

Spec == Init /\ [][Next]_vars

\* one filter with 2^HalfBits blocks and more
NextLarge ==
    \/ \E B \in BlockSizes, hasher \in Hashers :
          \E n \in LargeSizes, total \in Targets(B) : NewBuilder(B, n, hasher, total)
    \/ \E x \in Items : Insert(x)
    \/ \E x \in Items : Contains(x)

SpecLarge == Init /\ [][NextLarge]_vars

\* two filters: f, and g built like f or from the words of f
NextPair ==
    \/ \E B \in BlockSizes, hasher \in Hashers :
          \E n \in RequestSizes(B), total \in Targets(B) : NewBuilder(B, n, hasher, total)
    \/ \E hasher \in Hashers : Twin(hasher)
    \/ \E hasher \in Hashers : Rebuild(hasher)
    \/ \E x \in Items : Insert(x)
    \/ \E x \in Items : InsertSecond(x)

SpecPair == Init /\ [][NextPair]_vars

\* the iterators handed to extend: up to MaxInserts items
Iterators == UNION {[1..n -> Items] : n \in 0..MaxInserts}

\* f, and a clone of f that is given one by one what f.extend is given
NextBulk ==
    \/ \E B \in BlockSizes, hasher \in Hashers :
          \E n \in RequestSizes(B), total \in Targets(B) : NewBuilder(B, n, hasher, total)
    \/ \E x \in Items : Insert(x)
    \/ Clone
    \/ \E iter \in Iterators : Extend(iter)
    \/ Replay

SpecBulk == Init /\ [][NextBulk]_vars

\* one filter: construction and inserts
NextInsert ==
    \/ \E B \in BlockSizes, hasher \in Hashers :
          \E n \in RequestSizes(B), total \in Targets(B) : NewBuilder(B, n, hasher, total)
    \/ \E B \in BlockSizes, hasher \in Hashers, vec \in Vectors :
          \E total \in Targets(B) : NewBuilderFromVec(B, vec, hasher, total)
    \/ \E x \in Items : Insert(x)

SpecInsert == Init /\ [][NextInsert]_vars

\* ------------------------------------------------------------ properties
Built == fstate = "built"

\* every bit of word a is a bit of word b
WordWithin(a, b) == BitAnd(a, b) = a

\* every bit of the word sequence v is a bit of w, word by word
Within(v, w) == Len(v) = Len(w) /\ \A i \in 1..Len(v) : WordWithin(v[i], w[i])

AllZero(v) == \A i \in 1..Len(v) : v[i] = 0

\* the indices of the words of block b of filter F
BlockWords(F, b) ==
    {i \in 1..Len(F.bits) : (i - 1) \div words_per_block(F.BLOCK_SIZE_BITS) = b}

\* C1: no false negatives.  In every reachable state, contains answers true
\* for every item inserted so far, and a recorded answer of contains for an
\* inserted item is "true".
C1_NoFalseNegatives ==
    Built =>
        /\ \A x \in inserted : contains(f, x)
        /\ (result.item \in inserted => result.answer = "true")

\* a filter with sparse hashes and rounds holds two items, contains has
\* answered true for one of them, and some item not inserted is answered false
C1_Witness ==
    /\ Built
    /\ Cardinality(inserted) = 2
    /\ f.num_hashes > 0 /\ f.num_rounds.some
    /\ result.item \in inserted /\ result.answer = "true"
    /\ \E y \in Items \ inserted : ~contains(f, y)

\* a filter with a constant hasher holds an item and contains answered true
C1_WitnessConstant ==
    /\ Built
    /\ f.hasher.constant
    /\ f.target_hashes > 0
    /\ result.item \in inserted /\ result.answer = "true"

\* C2: inserts are monotonic.  Every step keeps every bit of f that was 1;
\* and from every reachable state, for every item, the sparse pass keeps the
\* bits of the block and the signature pass keeps the bits the sparse pass left.
C2_InsertMonotonic ==
    /\ [][(Built /\ Built' /\ f' # f) => Within(f.bits, f'.bits)]_vars
    /\ [](Built =>
            \A x \in Items :
                LET before == get_block(f.BLOCK_SIZE_BITS, f.bits, item_block(f, x))
                IN  /\ Within(before, after_sparse(f, x).block)
                    /\ Within(after_sparse(f, x).block, after_signature(f, x).block))

\* a filter holding an item, with bits set, that a further insert changes by
\* both of its passes
C2_Witness ==
    /\ Built
    /\ inserted # {}
    /\ ~AllZero(f.bits)
    /\ \E x \in Items \ inserted :
          LET before == get_block(f.BLOCK_SIZE_BITS, f.bits, item_block(f, x))
          IN  /\ ~AllZero(before)
              /\ after_sparse(f, x).block # before
              /\ after_signature(f, x).block # after_sparse(f, x).block

\* C3: contains is monotonic under extension.  Across every step, an item
\* (inserted or not) for which contains answered true is still answered true.
C3_ContainsMonotonic ==
    [][(Built /\ Built' /\ f' # f) =>
          \A x \in Items : contains(f, x) => contains(f', x)]_vars

\* a filter that answers true for an item never inserted and false for
\* another, and that a further insert still changes
C3_Witness ==
    /\ Built
    /\ inserted # {}
    /\ \E x \in Items \ inserted : contains(f, x)
    /\ \E y \in Items : ~contains(f, y) /\ insert(f, y).bits # f.bits

\* filter F with every word outside block b overwritten by the word fill
Scrubbed(F, b, fill) ==
    [F EXCEPT !.bits = [i \in 1..Len(F.bits) |->
                           IF i \in BlockWords(F, b) THEN F.bits[i] ELSE fill]]

\* C4: single-block locality.  From every reachable state and for every item
\* x, insert(x) leaves every word outside the block block_index selects for x
\* as it was, and the answer of contains(x) does not depend on any word
\* outside that block.
C4_SingleBlock ==
    Built =>
        \A x \in Items :
            /\ item_block(f, x) \in 0..(num_blocks(f) - 1)
            /\ \A i \in 1..Len(f.bits) \ BlockWords(f, item_block(f, x)) :
                  insert(f, x).bits[i] = f.bits[i]
            /\ \A fill \in {0, WordsModulus - 1} :
                  contains(Scrubbed(f, item_block(f, x), fill), x) = contains(f, x)

\* a filter of several blocks in which inserts have set bits in one block
\* and left another block all zero
C4_Witness ==
    /\ Built
    /\ num_blocks(f) >= 2
    /\ inserted # {}
    /\ \E b, c \in 0..(num_blocks(f) - 1) :
          /\ ~AllZero(get_block(f.BLOCK_SIZE_BITS, f.bits, b))
          /\ AllZero(get_block(f.BLOCK_SIZE_BITS, f.bits, c))
    /\ \E x \in Items \ inserted : ~contains(f, x)

\* the items an operation on f has been called with
Used == inserted \cup ({result.item} \cap Items)

\* C5: block_index is in range without overflow.  No operation has panicked,
\* and for every item an insert or contains was called with, the
\* multiplication of block_index does not overflow and its value is a block
\* of the filter.
C5_BlockIndexInRange ==
    Built =>
        /\ ~panicked
        /\ \A x \in Used :
              /\ ~item_overflows(f, x)
              /\ item_block(f, x) \in 0..(num_blocks(f) - 1)

\* the part of C5 that the code keeps: with or without overflow, the value
\* of block_index is a block of the filter wherever the call returns
C5_InRangeWhereItReturns ==
    Built => \A x \in Items : item_block(f, x) \in 0..(num_blocks(f) - 1)

\* C6: round trip through the word slice.  A filter just built from the
\* exported words of f, with the block size, the hasher and the hash count of
\* f, compares equal to f (both ways round), and is f.
C6_RoundTrip ==
    (gkind = "from_vec" /\ g.hasher = f.hasher /\ ginserted = {}) =>
        eq(g, f) /\ eq(f, g) /\ g = f

\* f of several blocks holds items and has bits set, and g has just been
\* built from its words with the same hasher
C6_Witness ==
    /\ gkind = "from_vec"
    /\ g.hasher = f.hasher
    /\ ginserted = {}
    /\ Cardinality(inserted) = 2
    /\ num_blocks(f) >= 2
    /\ ~AllZero(f.bits)

\* C7: filters that compare equal have the same hasher configuration and
\* the same words.
C7_EqualMeansSameHasher ==
    (gkind # "none" /\ eq(f, g)) => (f.hasher = g.hasher /\ f.bits = g.bits)

\* C8: determinism.  A second filter built with the block size, the number
\* of bits, the hasher and the hash count of f, and given the items f was
\* given (in any order, any number of times), is in the state of f and
\* compares equal to it.
C8_Deterministic ==
    (gkind = "twin" /\ g.hasher = f.hasher /\ ginserted = inserted) =>
        g = f /\ eq(f, g)

\* both filters, built alike, were given the same two items and have bits set
C8_Witness ==
    /\ gkind = "twin"
    /\ g.hasher = f.hasher
    /\ ginserted = inserted
    /\ Cardinality(inserted) = 2
    /\ f.num_hashes > 0
    /\ ~AllZero(g.bits)

\* the length of a backing vector once padded to whole blocks
PaddedLen(B, len) ==
    CHOOSE m \in len..(len + words_per_block(B)) :
        m % words_per_block(B) = 0 /\ m - len < words_per_block(B)

\* C9: shape invariant.  In every reachable state num_bits = num_blocks * B
\* = WordBits * (exported words); a filter requested with n > 0 bits has
\* the least num_blocks with n <= num_blocks * B, so n <= num_bits < n + B;
\* a filter built from a vector has that vector's length padded to whole
\* blocks.  The shape is fixed by the request, so no insert changes it.
C9_Shape ==
    Built =>
        /\ f.BLOCK_SIZE_BITS \in BlockSizes
        /\ num_blocks(f) >= 1
        /\ num_bits(f) = num_blocks(f) * f.BLOCK_SIZE_BITS
        /\ num_bits(f) = WordBits * Len(as_slice(f))
        /\ requested.kind = "bits" =>
              /\ requested.size > 0
              /\ (num_blocks(f) - 1) * f.BLOCK_SIZE_BITS < requested.size
              /\ requested.size <= num_bits(f)
              /\ num_bits(f) < requested.size + f.BLOCK_SIZE_BITS
        /\ requested.kind = "vec" =>
              Len(as_slice(f)) = PaddedLen(f.BLOCK_SIZE_BITS, requested.size)

\* a filter of several blocks requested with a size that is no multiple of
\* the block size, after inserts that set bits
C9_Witness ==
    /\ Built
    /\ requested.kind = "bits"
    /\ requested.size % f.BLOCK_SIZE_BITS # 0
    /\ num_blocks(f) >= 2
    /\ Cardinality(inserted) = 2
    /\ ~AllZero(f.bits)

\* construction was asked for zero bits or from an empty vector
BadRequest ==
    \/ requested.kind = "bits" /\ requested.size = 0
    \/ requested.kind = "vec" /\ requested.size = 0

\* C10: construction fails exactly for a request of zero bits or an empty
\* vector, and no insert or contains on a constructed filter fails.
C10_OnlyConstructionFails ==
    /\ fstate = "failed" => BadRequest
    /\ fstate = "built" => ~BadRequest
    /\ ~panicked
    /\ result.answer # "panic"

\* the construction half of C10 alone
C10_ConstructionFailsOnlyWhenEmpty ==
    /\ fstate = "failed" => BadRequest
    /\ fstate = "built" => ~BadRequest

\* C11: extend is the insert loop.  Whatever state f was in, once f.extend
\* has been given its items in one call (or several) and a clone of that
\* earlier f has been given the same items one insert at a time in the same
\* order, the two filters are in the same state.
C11_ExtendIsInsertLoop ==
    (gkind = "clone" /\ ~panicked /\ replayed = Len(extended)) => g = f

\* a filter of several blocks was cloned and then extended by two different
\* items, which set bits, and the clone has been given both
C11_Witness ==
    /\ gkind = "clone"
    /\ ~AllZero(f.bits)
    /\ Len(extended) = 2
    /\ replayed = 2
    /\ extended[1] # extended[2]
    /\ Range(extended) \cap gbase = {}
    /\ f.num_hashes > 0 /\ f.num_rounds.some
    /\ num_blocks(f) >= 2

\* the filter places at least one position per item
Places(F) == F.num_hashes >= 1 \/ F.num_rounds.some

\* C12: leaving the empty state is for good.  On a filter that places at
\* least one position per item, from every reachable state and for every
\* item x the block selected for x holds a set bit after insert(x); so a
\* filter that has been given an item is not all zero; and no step takes a
\* filter with a set bit back to all words zero.
C12_NonEmptyForGood ==
    /\ [](Built /\ Places(f) =>
            /\ \A x \in Items :
                  ~AllZero(get_block(f.BLOCK_SIZE_BITS, insert(f, x).bits, item_block(f, x)))
            /\ inserted # {} => ~AllZero(f.bits))
    /\ [][(Built /\ Built' /\ f' # f /\ ~AllZero(f.bits)) => ~AllZero(f'.bits)]_vars

\* a filter that was requested by size, so started all zero, places
\* positions by both passes, has been given two items and still has an
\* all-zero block
C12_Witness ==
    /\ Built
    /\ requested.kind = "bits"
    /\ f.num_hashes >= 1 /\ f.num_rounds.some
    /\ Cardinality(inserted) = 2
    /\ ~AllZero(f.bits)
    /\ \E b \in 0..(num_blocks(f) - 1) : AllZero(get_block(f.BLOCK_SIZE_BITS, f.bits, b))

\* the block with the bits of every position of the sequence set
RECURSIVE SetAll(_, _)
SetAll(block, positions) ==
    IF positions = <<>> THEN block
    ELSE SetAll([block EXCEPT ![Head(positions).word] = BitOr(@, Head(positions).data)],
                Tail(positions))

\* every bit of the position is set in the block
Tested(block, position) == WordWithin(position.data, block[position.word])

\* C13: insert and contains consume the hash stream in the same order.  In
\* every reachable state and for every item, the positions contains tests
\* (when it tests them all) are, one by one, the positions insert sets, with
\* the same h1 after each draw: first num_hashes sparse offsets, then, when
\* num_rounds is set, one signature per word of the block in ascending
\* order.  The positions are those of the operations: insert leaves the
\* block with exactly these positions set in addition, and contains
\* answers true exactly when all of them are set.
C13_SameStream ==
    Built =>
        \A x \in Items :
            LET ins == insert_positions(f, x)
                con == contains_positions(f, x)
                block == get_block(f.BLOCK_SIZE_BITS, f.bits, item_block(f, x))
                words == IF f.num_rounds.some THEN Len(block) ELSE 0
            IN  /\ Len(ins) = f.num_hashes + words
                /\ Len(con) = Len(ins)
                /\ \A i \in 1..Len(ins) : con[i] = ins[i]
                /\ \A i \in 1..f.num_hashes :
                      ins[i].pass = "sparse" /\ ins[i].word \in 1..Len(block)
                /\ \A i \in 1..words :
                      /\ ins[f.num_hashes + i].pass = "signature"
                      /\ ins[f.num_hashes + i].word = i
                /\ after_signature(f, x).block = SetAll(block, ins)
                /\ contains(f, x) = (\A i \in 1..Len(con) : Tested(block, con[i]))

\* a filter with several sparse hashes and rounds holds an item; contains
\* answers false for another item although the first position it tests is
\* set, so testing every position goes beyond where contains stops
C13_Witness ==
    /\ Built
    /\ f.num_hashes >= 2 /\ f.num_rounds.some
    /\ inserted # {}
    /\ \E y \in Items \ inserted :
          LET block == get_block(f.BLOCK_SIZE_BITS, f.bits, item_block(f, y))
              con == contains_positions(f, y)
          IN  /\ ~contains(f, y)
              /\ Tested(block, con[1])
              /\ \E i, j \in 1..Len(con) : i < j /\ ~Tested(block, con[i]) /\ Tested(block, con[j])

\* C14: contains is true exactly when insert would change nothing.  In
\* every reachable state and for every item x, contains(x) answers true if
\* and only if the filter after insert(x) is the filter before it; and
\* insert(x) twice leaves the filter that insert(x) once leaves, which
\* contains then answers true for.
C14_ContainsIffInsertIsNoOp ==
    Built =>
        \A x \in Items :
            /\ contains(f, x) = (insert(f, x) = f)
            /\ insert(insert(f, x), x) = insert(f, x)
            /\ contains(insert(f, x), x)

\* a filter with sparse hashes and rounds holds an item, answers true for
\* it (insert of it changes nothing), and answers false for an item it was
\* never given whose block already has bits set (insert of it changes the
\* filter)
C14_Witness ==
    /\ Built
    /\ requested.kind = "bits"
    /\ f.num_hashes >= 1 /\ f.num_rounds.some
    /\ inserted # {}
    /\ \E x \in inserted : contains(f, x) /\ insert(f, x) = f
    /\ \E y \in Items \ inserted :
          /\ ~contains(f, y)
          /\ insert(f, y) # f
          /\ ~AllZero(get_block(f.BLOCK_SIZE_BITS, f.bits, item_block(f, y)))

\* the items of the set S in ascending order
RECURSIVE Ascending(_)
Ascending(S) ==
    IF S = {} THEN <<>>
    ELSE LET least == CHOOSE x \in S : \A y \in S : x <= y
         IN  <<least>> \o Ascending(S \ {least})

\* C15: inserts commute.  From every reachable state and for any two items
\* x and y, insert(x) then insert(y) leaves the filter that insert(y) then
\* insert(x) leaves; and a filter that started all zero, whatever the order
\* and the number of times its items were inserted, is the filter that one
\* insert of each item in ascending order gives, so its words and every
\* answer of contains depend only on the set of items inserted.
C15_InsertsCommute ==
    Built =>
        /\ \A x, y \in Items :
              x < y => insert(insert(f, x), y) = insert(insert(f, y), x)
        /\ requested.kind = "bits" =>
              f = extend([f EXCEPT !.bits = Zeros(Len(f.bits))], Ascending(inserted))

\* a filter with sparse hashes and rounds holds two items that share a
\* block and differ in the bits they set there
C15_Witness ==
    /\ Built
    /\ requested.kind = "bits"
    /\ f.num_hashes >= 1 /\ f.num_rounds.some
    /\ \E x, y \in inserted :
          LET zero == [f EXCEPT !.bits = Zeros(Len(f.bits))]
          IN  /\ x # y
              /\ item_block(f, x) = item_block(f, y)
              /\ ~contains(insert(zero, x), y)
              /\ ~contains(insert(zero, y), x)

\* C16: the empty filter holds nothing.  A filter whose words are all zero
\* and that has been given no item answers false for every item if it
\* places at least one position per item, and so does every answer
\* contains has returned on it; a filter with num_hashes = 0 and no
\* num_rounds answers true for every item in every state.
C16_EmptyAnswersFalse ==
    Built =>
        /\ (AllZero(f.bits) /\ inserted = {} /\ Places(f)) =>
              /\ \A x \in Items : ~contains(f, x)
              /\ result.item \in Items => result.answer = "false"
        /\ ~Places(f) =>
              /\ \A x \in Items : contains(f, x)
              /\ result.item \in Items => result.answer = "true"

\* a filter of several blocks with sparse hashes and rounds, all zero and
\* given no item, has answered false
C16_Witness ==
    /\ Built
    /\ num_blocks(f) >= 2
    /\ f.num_hashes >= 1 /\ f.num_rounds.some
    /\ AllZero(f.bits)
    /\ inserted = {}
    /\ result.item \in Items /\ result.answer = "false"

\* a filter that places no position has been given an item, is still all
\* zero, and has answered true for an item it was not given
C16_WitnessNoPositions ==
    /\ Built
    /\ ~Places(f)
    /\ inserted # {}
    /\ AllZero(f.bits)
    /\ result.item \in Items \ inserted /\ result.answer = "true"

====
